---- MODULE Spec2Model ----
(***************************************************************************)
(* A model of the GPT inference driver of lightseq                         *)
(* (lightseq/csrc/models/gpt.cc): the construction of a Gpt model, its     *)
(* slot-indexed accessors and the decode loop of Gpt::Infer.               *)
(*                                                                         *)
(* The Context, Variable, LSModel and GeneratorLayer classes are used by   *)
(* gpt.cc but defined elsewhere; the definitions that stand for them say   *)
(* so in their comments.                                                   *)
(***************************************************************************)
EXTENDS Integers, Sequences, FiniteSets, TLC

(* ------------------------------ bounds -------------------------------- *)

\* the max_batch_size the model is constructed with
MaxBatchBound == 2
\* the tw_._max_step of the weight file
MaxStepBound == 3
\* the tw_._beam_size of the weight file
MaxBeamBound == 2
\* the tw_._n_enc_layer of the weight file
MaxLayerBound == 2
\* the stub decoding strategy emits on at most this many passes before it stops
MaxEmit == 2
\* Infer calls per model
MaxInfers == 2
\* the largest max_seq given to a StridedBatchGemmOp
MaxSeqBound == 2
\* wiring calls per StridedBatchGemmOp
MaxWirings == 2

(* --------------------------- program values --------------------------- *)

\* gpt.cc:122, the value handed to cudaMemset
MemsetValue == 345
\* cudaMemset stores the low byte of its value in every byte of every int
MemsetInt == LET b == MemsetValue % 256 IN b * (16777216 + 65536 + 256 + 1)
\* content of device or caller memory nobody has written yet
Uninit == -1
\* the token the stub decoding strategy emits
GenTok == 99
\* tw_._hidden_size values
HiddenSizes == {8}
\* caller-owned device memory: the input and the output blocks
InPtrs == {"d_input"}
OutPtrs == {"d_output"}
Null == "nullptr"
\* whether the build defines FP16_MODE, gpt.cc:240
FP16_MODE == FALSE
\* slot indices a caller may pass
Indices == {-1, 0, 1}
\* the stub decoding strategy never signals stop
NoStop == MaxEmit + 1

\* the caller's input memory: a row-major (B, L) matrix of token ids, all distinct
InputAt(flat) == 1000 + flat

(* ------------------------------- layers ------------------------------- *)

EmbLayer == <<"emb", 0>>
GptLayer(i) == <<"gpt", i>>
LnLayer == <<"ln", 0>>
LinearLayer == <<"linear", 0>>
GenLayer == <<"gen", 0>>

\* the order in which gpt.cc constructs, wires and runs the layers
LayerOrder(n) ==
  <<EmbLayer>> \o [i \in 1..n |-> GptLayer(i)] \o <<LnLayer, LinearLayer, GenLayer>>

AllLayers == {EmbLayer, LnLayer, LinearLayer, GenLayer} \cup {GptLayer(i) : i \in 1..MaxLayerBound}

Range(s) == {s[i] : i \in 1..Len(s)}

VARIABLES
  pc,              \* position of the host thread
  max_batch_size,  \* Gpt::_max_batch_size
  tw,              \* the weights' configuration: max_step, beam_size, n_enc_layer, hidden_size
  phase,           \* Context phase: "none", "Building", "Built"
  flips,           \* number of Building -> Built transitions
  layers,          \* the layers constructed so far, in order
  layer_max,       \* the bounds each layer was constructed with
  wired,           \* the layers wired into the network so far, in order
  tensor,          \* buffer referenced by the Variables _inp_tokens and _out_tokens (0: none)
  mem,             \* content of the two device buffers
  input_ptr,       \* Gpt::_input_ptr
  gpt_out_ptr,     \* Gpt::_gpt_out_ptr
  out_mem,         \* content of the caller's output memory
  input_shapes,    \* LSModel::input_shapes_[0]
  output_shapes,   \* LSModel::output_shapes_[0]
  batch_size,      \* local of Infer
  seq_len,         \* local of Infer
  steps,           \* local of Infer
  layer_cfg,       \* the arguments of each layer's last before_forward
  fwd_idx,         \* index in LayerOrder of the next layer to run forward
  stop_after,      \* the stub decoding strategy: passes that emit before it signals stop
  passes,          \* forward passes completed in this Infer call
  decodes,         \* loop iterations begun with steps >= 1 in this Infer call
  bf_calls,        \* Gpt::before_forward calls in this Infer call
  swaps,           \* swap_tensor calls in this Infer call
  syncs,           \* synchronize calls in this Infer call
  stopped,         \* is_stop() has returned true in this Infer call
  at_stop,         \* <<bf_calls, passes, swaps>> when is_stop() returned true
  tensor_at_entry, \* tensor at the entry of this Infer call
  infers,          \* Infer calls begun
  bf_done,         \* the layers whose before_forward ran in this loop iteration
  fwd_log,         \* the layers whose forward ran in this loop iteration, in call order
  gen_buf,         \* the buffer the last generator forward of this Infer call wrote (0: none)
  last_call,       \* the last accessor call and its outcome
  gemm_op,         \* StridedBatchGemmOp: _op_AA and _op_BB, <<>> before its construction
  gemm,            \* StridedBatchGemmOp: _m, _n, _k, _batch_heads, _max_seq
  gemm_parents,    \* StridedBatchGemmOp: the parent Variables, in order
  gemm_children,   \* StridedBatchGemmOp: the child Variables, in order
  gemm_wire_args,  \* the <<inpA, inpB>> of the operator's last wiring call
  gemm_tensor,     \* the buffer each input Variable of the operator references
  gemm_setup,      \* the operator's last shape setter call, its arguments, _max_seq before it
  gemm_call,       \* the operator's last forward or backward call, "" if another call followed
  gemm_launch      \* the GEMM kernels that call launched, with their arguments

vars == <<pc, max_batch_size, tw, phase, flips, layers, layer_max, wired,
          tensor, mem, input_ptr, gpt_out_ptr, out_mem, input_shapes, output_shapes,
          batch_size, seq_len, steps, layer_cfg, fwd_idx, stop_after, passes, decodes,
          bf_calls, swaps, syncs, stopped, at_stop, tensor_at_entry, infers, bf_done,
          fwd_log, gen_buf, last_call,
          gemm_op, gemm, gemm_parents, gemm_children, gemm_wire_args, gemm_tensor,
               gemm_setup, gemm_call,
          gemm_launch>>

ctx_vars == <<phase, flips>>
graph_vars == <<layers, layer_max, wired>>
buf_vars == <<tensor, mem>>
ptr_vars == <<input_ptr, gpt_out_ptr>>
shape_vars == <<input_shapes, output_shapes>>
infer_vars == <<batch_size, seq_len, steps, layer_cfg, fwd_idx, stop_after, passes, decodes,
                bf_calls, swaps, syncs, stopped, at_stop, tensor_at_entry, infers,
                bf_done, fwd_log, gen_buf>>
config_vars == <<max_batch_size, tw, out_mem>>
gemm_vars == <<gemm_op, gemm, gemm_parents, gemm_children, gemm_wire_args, gemm_tensor,
               gemm_setup, gemm_call,
               gemm_launch>>
gpt_vars == <<pc, ctx_vars, graph_vars, buf_vars, ptr_vars, shape_vars, infer_vars,
              config_vars, last_call>>

\* the Variables a StridedBatchGemmOp is wired to
GemmInputs == {"A", "B"}

NoCall == [op |-> "none", index |-> 0, threw |-> FALSE, what |-> "", ret |-> <<>>]

\* capacity of each token buffer, gpt.cc:85-86
TokenCapacity == max_batch_size * tw.beam_size * tw.max_step

Init ==
  /\ pc = "ctor"
  /\ max_batch_size = MaxBatchBound
  /\ tw \in [max_step : {MaxStepBound}, beam_size : {MaxBeamBound},
             n_enc_layer : {MaxLayerBound}, hidden_size : HiddenSizes]
  /\ phase = "none"
  /\ flips = 0
  /\ layers = <<>>
  /\ layer_max = [l \in AllLayers |-> <<>>]
  /\ wired = <<>>
  /\ tensor = [v \in {"inp", "out"} |-> 0]
  /\ mem = [b \in 1..2 |-> <<>>]
  /\ input_ptr = Null
  /\ gpt_out_ptr = Null
  /\ out_mem = [p \in OutPtrs |-> [i \in 1..(max_batch_size * tw.max_step) |-> Uninit]]
  /\ input_shapes = <<>>
  /\ output_shapes = <<>>
  /\ batch_size = 0
  /\ seq_len = 0
  /\ steps = 0
  /\ layer_cfg = [l \in AllLayers |-> <<>>]
  /\ fwd_idx = 0
  /\ stop_after = 0
  /\ passes = 0
  /\ decodes = 0
  /\ bf_calls = 0
  /\ swaps = 0
  /\ syncs = 0
  /\ stopped = FALSE
  /\ at_stop = <<>>
  /\ tensor_at_entry = [v \in {"inp", "out"} |-> 0]
  /\ infers = 0
  /\ bf_done = {}
  /\ fwd_log = <<>>
  /\ gen_buf = 0
  /\ last_call = NoCall
  /\ gemm_op = <<>>
  /\ gemm = <<>>
  /\ gemm_parents = <<>>
  /\ gemm_children = <<>>
  /\ gemm_wire_args = <<>>
  /\ gemm_tensor = [v \in GemmInputs |-> v]
  /\ gemm_setup = <<>>
  /\ gemm_call = ""
  /\ gemm_launch = <<>>

(* ------------------------- Context (not in src) ------------------------ *)

\* Context::create_global_context: a fresh Context is not built
create_global_context == "Building"
\* Context::regress_begin, the opening of the build bracket
enter_build(ph) == "Building"
\* Context::regress_end, the closing of the build bracket: the Context is built
leave_build(ph) == "Built"
\* Context::is_built
is_built(ph) == ph = "Built"

(* ----------------------------- Gpt::Gpt ------------------------------- *)

\* gpt.cc:28
max_batch_tokens == tw.max_step * max_batch_size

\* the bounds each layer's constructor is given, gpt.cc:31-66
LayerBounds(l) ==
  CASE l[1] = "emb" -> <<max_batch_tokens, tw.max_step, tw.beam_size>>
    [] l[1] = "gpt" -> <<max_batch_tokens * tw.beam_size, tw.max_step>>
    [] l[1] = "ln" -> <<max_batch_tokens * tw.beam_size>>
    [] l[1] = "linear" -> <<max_batch_tokens * tw.beam_size>>
    [] l[1] = "gen" -> <<max_batch_size, tw.max_step, tw.beam_size>>

\* step.1: create the global context
CreateContext ==
  /\ pc = "ctor"
  /\ phase' = create_global_context
  /\ pc' = "load"
  /\ UNCHANGED <<flips, graph_vars, buf_vars, ptr_vars, shape_vars, infer_vars,
                 config_vars, gemm_vars, last_call>>

\* step.2: load the weights; a non-empty result string is thrown
LoadWeights ==
  /\ pc = "load"
  /\ \E ok \in BOOLEAN : pc' = IF ok THEN "regress_begin" ELSE "ctor_failed"
  /\ UNCHANGED <<ctx_vars, graph_vars, buf_vars, ptr_vars, shape_vars, infer_vars,
                 config_vars, gemm_vars, last_call>>

\* _context_ptr->regress_begin() and step.3, the input Variable without a buffer
RegressBegin ==
  /\ pc = "regress_begin"
  /\ phase' = enter_build(phase)
  /\ pc' = "init_layers"
  /\ UNCHANGED <<flips, graph_vars, buf_vars, ptr_vars, shape_vars, infer_vars,
                 config_vars, gemm_vars, last_call>>

\* step.4: construct the next layer, in the order of gpt.cc:31-66
InitLayer ==
  /\ pc = "init_layers"
  /\ Len(layers) < Len(LayerOrder(tw.n_enc_layer))
  /\ LET l == LayerOrder(tw.n_enc_layer)[Len(layers) + 1] IN
       /\ layers' = Append(layers, l)
       /\ layer_max' = [layer_max EXCEPT ![l] = LayerBounds(l)]
  /\ UNCHANGED <<pc, ctx_vars, wired, buf_vars, ptr_vars, shape_vars, infer_vars,
                 config_vars, gemm_vars, last_call>>

\* _context_ptr->regress_end(), gpt.cc:68
RegressEnd ==
  /\ pc = "init_layers"
  /\ Len(layers) = Len(LayerOrder(tw.n_enc_layer))
  /\ phase' = leave_build(phase)
  /\ flips' = IF phase = "Building" THEN flips + 1 ELSE flips
  /\ pc' = "wire"
  /\ UNCHANGED <<graph_vars, buf_vars, ptr_vars, shape_vars, infer_vars,
                 config_vars, gemm_vars, last_call>>

\* step.5: wire the next layer into the network, gpt.cc:72-84
WireLayer ==
  /\ pc = "wire"
  /\ Len(wired) < Len(layers)
  /\ wired' = Append(wired, layers[Len(wired) + 1])
  /\ UNCHANGED <<pc, ctx_vars, layers, layer_max, buf_vars, ptr_vars, shape_vars,
                 infer_vars, config_vars, gemm_vars, last_call>>

\* Variable::malloc_memory (not in src): a fresh buffer of the given capacity
malloc_memory(id, size) == [i \in 1..size |-> Uninit]

\* _inp_tokens->malloc_memory, gpt.cc:85
MallocInp ==
  /\ pc = "wire"
  /\ Len(wired) = Len(layers)
  /\ tensor' = [tensor EXCEPT !["inp"] = 1]
  /\ mem' = [mem EXCEPT ![1] = malloc_memory(1, TokenCapacity)]
  /\ pc' = "malloc_out"
  /\ UNCHANGED <<ctx_vars, graph_vars, ptr_vars, shape_vars, infer_vars,
                 config_vars, gemm_vars, last_call>>

\* _out_tokens->malloc_memory, gpt.cc:86
MallocOut ==
  /\ pc = "malloc_out"
  /\ tensor' = [tensor EXCEPT !["out"] = 2]
  /\ mem' = [mem EXCEPT ![2] = malloc_memory(2, TokenCapacity)]
  /\ pc' = "idle"
  /\ UNCHANGED <<ctx_vars, graph_vars, ptr_vars, shape_vars, infer_vars,
                 config_vars, gemm_vars, last_call>>

Construct ==
  \/ CreateContext
  \/ LoadWeights
  \/ RegressBegin
  \/ InitLayer
  \/ RegressEnd
  \/ WireLayer
  \/ MallocInp
  \/ MallocOut

(* --------------------------- slot accessors --------------------------- *)

\* a slot check that only rejects negative indices
SlotCaseNonNegative(index) == index >= 0

\* switch (index): case 0 is the only declared slot, gpt.cc:167-252
SlotCase(index) == index = 0

Call(op, index, what, ret) ==
  [op |-> op, index |-> index, threw |-> ~SlotCase(index),
   what |-> IF SlotCase(index) THEN "" ELSE what,
   ret |-> IF SlotCase(index) THEN ret ELSE <<>>]

\* Gpt::set_input_ptr, gpt.cc:167-178
set_input_ptr(index, p) ==
  /\ input_ptr' = IF SlotCase(index) THEN p ELSE input_ptr
  /\ last_call' = Call("set_input_ptr", index, "invalid input index", <<>>)
  /\ UNCHANGED gpt_out_ptr

\* Gpt::set_output_ptr, gpt.cc:180-191
set_output_ptr(index, p) ==
  /\ gpt_out_ptr' = IF SlotCase(index) THEN p ELSE gpt_out_ptr
  /\ last_call' = Call("set_output_ptr", index, "invalid output index", <<>>)
  /\ UNCHANGED input_ptr

\* Gpt::get_output_ptr, gpt.cc:193-202
get_output_ptr(index) ==
  /\ last_call' = Call("get_output_ptr", index, "invalid output index", <<gpt_out_ptr>>)
  /\ UNCHANGED ptr_vars

\* Gpt::get_input_max_shape, gpt.cc:204-213
get_input_max_shape(index) ==
  /\ last_call' = Call("get_input_max_shape", index, "invalid input index",
                       <<max_batch_size, tw.max_step>>)
  /\ UNCHANGED ptr_vars

\* Gpt::get_output_max_shape, gpt.cc:214-223
get_output_max_shape(index) ==
  /\ last_call' = Call("get_output_max_shape", index, "invalid output index",
                       <<max_batch_size, tw.max_step, tw.hidden_size>>)
  /\ UNCHANGED ptr_vars

\* Gpt::get_input_dtype, gpt.cc:225-235
get_input_dtype(index) ==
  /\ last_call' = Call("get_input_dtype", index, "invalid input index", <<"kInt32">>)
  /\ UNCHANGED ptr_vars

\* Gpt::get_output_dtype, gpt.cc:237-252
get_output_dtype(index) ==
  /\ last_call' = Call("get_output_dtype", index, "invalid output index",
                       <<IF FP16_MODE THEN "kFloat16" ELSE "kFloat32">>)
  /\ UNCHANGED ptr_vars

\* a caller's accessor call, with any slot index, while no Infer call is running
Accessor ==
  /\ pc = "idle"
  /\ \E index \in Indices :
       \/ \E p \in InPtrs : set_input_ptr(index, p)
       \/ \E p \in OutPtrs : set_output_ptr(index, p)
       \/ get_output_ptr(index)
       \/ get_input_max_shape(index)
       \/ get_output_max_shape(index)
       \/ get_input_dtype(index)
       \/ get_output_dtype(index)
  /\ UNCHANGED <<pc, ctx_vars, graph_vars, buf_vars, shape_vars, infer_vars, config_vars,
                 gemm_vars>>

\* the caller binds its input and output memory to slot 0, as main does in
\* transformer_example.cc:44 and :55
Bind ==
  /\ pc = "idle"
  /\ \/ \E p \in InPtrs : set_input_ptr(0, p)
     \/ \E p \in OutPtrs : set_output_ptr(0, p)
  /\ UNCHANGED <<pc, ctx_vars, graph_vars, buf_vars, shape_vars, infer_vars, config_vars,
                 gemm_vars>>

\* LSModel::set_input_shape(0, {B, L}) (not in src), within the declared maxima
SetInputShape ==
  /\ pc = "idle"
  /\ \E B \in 1..max_batch_size, L \in 1..tw.max_step : input_shapes' = <<B, L>>
  /\ last_call' = NoCall
  /\ UNCHANGED <<pc, ctx_vars, graph_vars, buf_vars, ptr_vars, output_shapes, infer_vars,
                 config_vars, gemm_vars>>

(* ----------------------------- Gpt::Infer ----------------------------- *)

\* the index in the caller's input memory that the prompt copy reads for batch row i,
\* beam j and position k: cudaMemcpy(..., _input_ptr, seq_len * sizeof(int)), gpt.cc:126-128
PromptSource(i, j, k) == k

\* cudaMemset of batch_size * beam_size * max_step ints, then the copy of the prompt
\* into every slot (i * beam_size + j), slot stride max_step; gpt.cc:122-135
LoadPrompt(buf, B, L) ==
  [idx \in 1..Len(buf) |->
     LET flat == idx - 1
         slot == flat \div tw.max_step
         k == flat % tw.max_step
     IN IF flat >= B * tw.beam_size * tw.max_step THEN buf[idx]
        ELSE IF k < L
             THEN InputAt(PromptSource(slot \div tw.beam_size, slot % tw.beam_size, k))
             ELSE MemsetInt]

\* a before_forward that hands the embedding the offset of the GPT layers
BeforeForwardArgsSameOffset(l, B, L, st) ==
  IF st = 0
  THEN CASE l[1] = "emb" -> <<B * tw.beam_size, L, 0>>
         [] l[1] = "gpt" -> <<B * tw.beam_size, L, 0>>
         [] l[1] = "ln" -> <<B * tw.beam_size, L>>
         [] l[1] = "linear" -> <<B * tw.beam_size, L>>
         [] l[1] = "gen" -> <<B, L, 0>>
  ELSE CASE l[1] = "emb" -> <<B * tw.beam_size, 1, L + st>>
         [] l[1] = "gpt" -> <<B * tw.beam_size, 1, L + st>>
         [] l[1] = "ln" -> <<B * tw.beam_size, 1>>
         [] l[1] = "linear" -> <<B * tw.beam_size, 1>>
         [] l[1] = "gen" -> <<B, 1, L + st - 1>>

\* the arguments Gpt::before_forward hands to layer l, gpt.cc:94-114
BeforeForwardArgs(l, B, L, st) ==
  IF st = 0
  THEN CASE l[1] = "emb" -> <<B * tw.beam_size, L, 0>>
         [] l[1] = "gpt" -> <<B * tw.beam_size, L, 0>>
         [] l[1] = "ln" -> <<B * tw.beam_size, L>>
         [] l[1] = "linear" -> <<B * tw.beam_size, L>>
         [] l[1] = "gen" -> <<B, L, 0>>
  ELSE CASE l[1] = "emb" -> <<B * tw.beam_size, 1, L + st - 1>>
         [] l[1] = "gpt" -> <<B * tw.beam_size, 1, L + st>>
         [] l[1] = "ln" -> <<B * tw.beam_size, 1>>
         [] l[1] = "linear" -> <<B * tw.beam_size, 1>>
         [] l[1] = "gen" -> <<B, 1, L + st - 1>>

\* GeneratorLayer::forward (not in src): every row of the output token buffer becomes
\* the row of the input token buffer followed by the token the strategy emits
generator_forward(inp, out, cfg) ==
  LET rows == cfg[1] * tw.beam_size
      pos == cfg[2] + cfg[3]
  IN [idx \in 1..Len(out) |->
        LET flat == idx - 1
            slot == flat \div tw.max_step
            k == flat % tw.max_step
        IN IF slot >= rows THEN out[idx]
           ELSE IF k < pos THEN inp[idx]
           ELSE IF k = pos THEN GenTok
           ELSE out[idx]]

\* GeneratorLayer::is_stop (not in src): the stub strategy emits on its first
\* `plan` passes and signals stop on the next; with NoStop it never does
is_stop(plan, done) == plan # NoStop /\ done > plan

\* Variable::swap_tensor (not in src): the two Variables exchange their buffer references
swap_tensor(t, a, b) == [t EXCEPT ![a] = t[b], ![b] = t[a]]

\* a swap after which both Variables reference the input buffer
SwapCallAlias(t) == [t EXCEPT !["out"] = t["inp"]]

\* a swap that copies the output reference into the input Variable
SwapCallCopy(t) == [t EXCEPT !["inp"] = t["out"]]

\* Variable::swap_tensor(_inp_tokens, _out_tokens), gpt.cc:156
SwapCall(t) == swap_tensor(t, "inp", "out")

\* a stop check whose break returns without the synchronize call
AfterStopCheckNoSync(stop) == IF stop THEN "publish" ELSE "swap"

\* a stop check whose break is missing
AfterStopCheckNoBreak(stop) == "swap"

\* if (_generator_layer->is_stop()) break; gpt.cc:150-152
AfterStopCheck(stop) == IF stop THEN "sync" ELSE "swap"

\* if (steps == 1) break; gpt.cc:157-159
LoopCapReached(st) == st = 1

\* set_output_shape(0, {batch_size, seq_len + steps}), gpt.cc:164
PublishedShape(B, L, st) == <<B, L + st>>

\* entry of Infer: read the input shape, load the prompt; gpt.cc:117-138
InferEntry ==
  /\ pc = "idle"
  /\ infers < MaxInfers
  /\ input_shapes # <<>>
  /\ input_ptr # Null
  /\ infers' = infers + 1
  /\ batch_size' = input_shapes[1]
  /\ seq_len' = input_shapes[2]
  /\ mem' = [mem EXCEPT ![tensor["inp"]] =
               LoadPrompt(mem[tensor["inp"]], input_shapes[1], input_shapes[2])]
  /\ steps' = 0
  /\ stop_after' \in (0..MaxEmit) \cup {NoStop}
  /\ passes' = 0
  /\ decodes' = 0
  /\ bf_calls' = 0
  /\ swaps' = 0
  /\ syncs' = 0
  /\ stopped' = FALSE
  /\ at_stop' = <<>>
  /\ tensor_at_entry' = tensor
  /\ fwd_idx' = 0
  /\ bf_done' = {}
  /\ fwd_log' = <<>>
  /\ gen_buf' = 0
  /\ last_call' = NoCall
  /\ pc' = "before_forward"
  /\ UNCHANGED <<ctx_vars, graph_vars, tensor, ptr_vars, shape_vars, layer_cfg, config_vars,
                 gemm_vars>>

\* before_forward(batch_size, seq_len, steps), gpt.cc:140
BeforeForward ==
  /\ pc = "before_forward"
  /\ layer_cfg' = [l \in AllLayers |->
                     IF l \in Range(layers)
                     THEN BeforeForwardArgs(l, batch_size, seq_len, steps)
                     ELSE layer_cfg[l]]
  /\ bf_calls' = bf_calls + 1
  /\ decodes' = IF steps >= 1 THEN decodes + 1 ELSE decodes
  /\ fwd_idx' = 1
  /\ bf_done' = Range(layers)
  /\ fwd_log' = <<>>
  /\ pc' = "forward"
  /\ UNCHANGED <<ctx_vars, graph_vars, buf_vars, ptr_vars, shape_vars, batch_size, seq_len,
                 steps, stop_after, passes, swaps, syncs, stopped, at_stop, tensor_at_entry,
                 infers, gen_buf, config_vars, gemm_vars, last_call>>

\* a forward sequence that runs the linear projection before the layer norm
ForwardOrderLinearFirst(n) ==
  <<EmbLayer>> \o [i \in 1..n |-> GptLayer(i)] \o <<LinearLayer, LnLayer, GenLayer>>

\* the order of the forward calls of one loop iteration, gpt.cc:142-148
ForwardOrder(n) ==
  <<EmbLayer>> \o [i \in 1..n |-> GptLayer(i)] \o <<LnLayer, LinearLayer, GenLayer>>

\* the forward call of the next layer, gpt.cc:142-148
Forward ==
  /\ pc = "forward"
  /\ LET order == ForwardOrder(tw.n_enc_layer)
         l == order[fwd_idx]
     IN /\ fwd_log' = Append(fwd_log, l)
        /\ mem' = IF l = GenLayer /\ is_built(phase)
                  THEN [mem EXCEPT ![tensor["out"]] =
                          generator_forward(mem[tensor["inp"]], mem[tensor["out"]],
                                            layer_cfg[GenLayer])]
                  ELSE mem
        /\ gen_buf' = IF l = GenLayer /\ is_built(phase) THEN tensor["out"] ELSE gen_buf
        /\ IF fwd_idx = Len(order)
           THEN /\ passes' = passes + 1
                /\ pc' = "is_stop"
                /\ UNCHANGED fwd_idx
           ELSE /\ fwd_idx' = fwd_idx + 1
                /\ UNCHANGED <<passes, pc>>
  /\ UNCHANGED <<ctx_vars, graph_vars, tensor, ptr_vars, shape_vars, batch_size, seq_len,
                 steps, layer_cfg, stop_after, decodes, bf_calls, swaps, syncs, stopped,
                 at_stop, tensor_at_entry, infers, bf_done, config_vars, gemm_vars, last_call>>

\* the stop check, gpt.cc:150-152
StopCheck ==
  /\ pc = "is_stop"
  /\ LET stop == is_stop(stop_after, passes) IN
       /\ stopped' = stop
       /\ at_stop' = IF stop THEN <<bf_calls, passes, swaps>> ELSE at_stop
       /\ pc' = AfterStopCheck(stop)
  /\ UNCHANGED <<ctx_vars, graph_vars, buf_vars, ptr_vars, shape_vars, batch_size, seq_len,
                 steps, layer_cfg, fwd_idx, stop_after, passes, decodes, bf_calls, swaps,
                 syncs, tensor_at_entry, infers, bf_done, fwd_log, gen_buf,
                 config_vars, gemm_vars, last_call>>

\* the buffer swap, gpt.cc:156
Swap ==
  /\ pc = "swap"
  /\ tensor' = SwapCall(tensor)
  /\ swaps' = swaps + 1
  /\ pc' = "cap"
  /\ UNCHANGED <<ctx_vars, graph_vars, mem, ptr_vars, shape_vars, batch_size, seq_len,
                 steps, layer_cfg, fwd_idx, stop_after, passes, decodes, bf_calls, syncs,
                 stopped, at_stop, tensor_at_entry, infers, bf_done, fwd_log, gen_buf,
                 config_vars, gemm_vars, last_call>>

\* if (steps == 1) break; steps++; gpt.cc:157-160
StepOrBreak ==
  /\ pc = "cap"
  /\ IF LoopCapReached(steps)
     THEN pc' = "sync" /\ UNCHANGED steps
     ELSE pc' = "before_forward" /\ steps' = steps + 1
  /\ UNCHANGED <<ctx_vars, graph_vars, buf_vars, ptr_vars, shape_vars, batch_size, seq_len,
                 layer_cfg, fwd_idx, stop_after, passes, decodes, bf_calls, swaps, syncs,
                 stopped, at_stop, tensor_at_entry, infers, bf_done, fwd_log, gen_buf,
                 config_vars, gemm_vars, last_call>>

\* _context_ptr->synchronize(), gpt.cc:162
Synchronize ==
  /\ pc = "sync"
  /\ syncs' = syncs + 1
  /\ pc' = "publish"
  /\ UNCHANGED <<ctx_vars, graph_vars, buf_vars, ptr_vars, shape_vars, batch_size, seq_len,
                 steps, layer_cfg, fwd_idx, stop_after, passes, decodes, bf_calls, swaps,
                 stopped, at_stop, tensor_at_entry, infers, bf_done, fwd_log, gen_buf,
                 config_vars, gemm_vars, last_call>>

\* set_output_shape(0, {batch_size, seq_len + steps}), gpt.cc:164
Publish ==
  /\ pc = "publish"
  /\ output_shapes' = PublishedShape(batch_size, seq_len, steps)
  /\ pc' = "return"
  /\ UNCHANGED <<ctx_vars, graph_vars, buf_vars, ptr_vars, input_shapes, infer_vars,
                 config_vars, gemm_vars, last_call>>

\* Infer returns, gpt.cc:165: its locals are gone
Return ==
  /\ pc = "return"
  /\ pc' = "idle"
  /\ batch_size' = 0
  /\ seq_len' = 0
  /\ steps' = 0
  /\ fwd_idx' = 0
  /\ stop_after' = 0
  /\ passes' = 0
  /\ decodes' = 0
  /\ bf_calls' = 0
  /\ swaps' = 0
  /\ syncs' = 0
  /\ stopped' = FALSE
  /\ at_stop' = <<>>
  /\ tensor_at_entry' = tensor
  /\ bf_done' = {}
  /\ fwd_log' = <<>>
  /\ gen_buf' = 0
  /\ UNCHANGED <<ctx_vars, graph_vars, buf_vars, ptr_vars, shape_vars, layer_cfg, infers,
                 config_vars, gemm_vars, last_call>>

Infer ==
  \/ InferEntry
  \/ BeforeForward
  \/ Forward
  \/ StopCheck
  \/ Swap
  \/ StepOrBreak
  \/ Synchronize
  \/ Publish
  \/ Return

\* a model that is constructed, bound by its caller and run
Next ==
  \/ Construct
  \/ Bind
  \/ SetInputShape
  \/ Infer

Spec == Init /\ [][Next]_vars

\* a model that is constructed and whose accessors are called with any slot index
NextApi ==
  \/ Construct
  \/ Accessor
  \/ SetInputShape

SpecApi == Init /\ [][NextApi]_vars

(* ------------------------- StridedBatchGemmOp ------------------------- *)

\* MATRIX_OP
MatrixOps == {"Transpose", "NonTranspose"}

\* the (mm, nn, kk, batch_heads) a caller gives to the shape setters
GemmShapes == {<<2, 3, 5, 1>>, <<3, 5, 7, 2>>, <<5, 2, 3, 4>>}
\* the max_seq a caller gives to before_forward
GemmMaxSeqs == 0..MaxSeqBound

\* the values the members _m, _n, _k, _batch_heads, _max_seq can hold
GemmFields ==
  {[m |-> s[1], n |-> s[2], k |-> s[3], batch_heads |-> s[4], max_seq |-> ms] :
     s \in GemmShapes, ms \in {-1} \cup GemmMaxSeqs}

\* the end of the build bracket, as at gpt.cc:68
GemmLeaveBuild ==
  /\ phase = "Building"
  /\ phase' = leave_build(phase)
  /\ flips' = flips + 1
  /\ UNCHANGED <<pc, graph_vars, buf_vars, ptr_vars, shape_vars, infer_vars, config_vars,
                 last_call, gemm_vars>>

\* StridedBatchGemmOp::StridedBatchGemmOp, strided_batch_gemm.h:29-43: it sets the
\* operand layouts and leaves _m, _n, _k, _batch_heads and _max_seq uninitialised
GemmConstruct ==
  /\ phase # "none"
  /\ gemm_op = <<>>
  /\ \E opA, opB \in MatrixOps : gemm_op' = [op_AA |-> opA, op_BB |-> opB]
  /\ gemm' \in GemmFields
  /\ UNCHANGED <<gpt_vars, gemm_parents, gemm_children, gemm_wire_args, gemm_tensor,
                 gemm_setup, gemm_call,
                 gemm_launch>>

\* a wiring that records the parents in the opposite order
WireParentsReversed(inpA, inpB) == <<inpB, inpA>>

\* set_parents({inpA, inpB}), strided_batch_gemm.cpp:11
WireParents(inpA, inpB) == <<inpA, inpB>>

\* new Variable("StridedBatchGemmOp_out", ...), strided_batch_gemm.cpp:8-10: the
\* next Variable after those this operator made before
NewVariable(children) ==
  <<"StridedBatchGemmOp_out", IF children = <<>> THEN 1 ELSE children[1][2] + 1>>

\* StridedBatchGemmOp::operator()(inpA, inpB), strided_batch_gemm.cpp:6-14
GemmWire ==
  /\ gemm_op # <<>>
  /\ NewVariable(gemm_children)[2] <= MaxWirings
  /\ \E inpA, inpB \in GemmInputs :
       /\ gemm_parents' = WireParents(inpA, inpB)
       /\ gemm_wire_args' = <<inpA, inpB>>
  /\ gemm_children' = <<NewVariable(gemm_children)>>
  /\ gemm_call' = ""
  /\ gemm_launch' = <<>>
  /\ UNCHANGED <<gpt_vars, gemm_op, gemm, gemm_tensor, gemm_setup>>

\* a before_forward(mm, nn, kk, batch_heads) that leaves _max_seq as it was
before_forward_keep_max_seq(g, mm, nn, kk, batch_heads) ==
  [m |-> mm, n |-> nn, k |-> kk, batch_heads |-> batch_heads, max_seq |-> g.max_seq]

\* before_forward(mm, nn, kk, batch_heads), strided_batch_gemm.h:49-53
before_forward(g, mm, nn, kk, batch_heads) ==
  [m |-> mm, n |-> nn, k |-> kk, batch_heads |-> batch_heads, max_seq |-> -1]

\* before_forward(mm, nn, kk, batch_heads, max_seq), strided_batch_gemm.h:55-59
before_forward_max_seq(g, mm, nn, kk, batch_heads, max_seq) ==
  [m |-> mm, n |-> nn, k |-> kk, batch_heads |-> batch_heads, max_seq |-> max_seq]

\* before_backward(mm, nn, kk, batch_heads), strided_batch_gemm.h:63-66
before_backward(g, mm, nn, kk, batch_heads) ==
  [m |-> mm, n |-> nn, k |-> kk, batch_heads |-> batch_heads, max_seq |-> g.max_seq]

\* a caller's call of one of the three shape setters
GemmSetup(call, args, g) ==
  /\ gemm' = g
  /\ gemm_setup' = [call |-> call, args |-> args, was_max_seq |-> gemm.max_seq]
  /\ gemm_call' = ""
  /\ gemm_launch' = <<>>
  /\ UNCHANGED <<gpt_vars, gemm_op, gemm_parents, gemm_children, gemm_wire_args,
                 gemm_tensor>>

GemmBeforeForward ==
  /\ gemm_op # <<>>
  /\ \E s \in GemmShapes :
       GemmSetup("before_forward", s, before_forward(gemm, s[1], s[2], s[3], s[4]))

GemmBeforeForwardMaxSeq ==
  /\ gemm_op # <<>>
  /\ \E s \in GemmShapes, ms \in GemmMaxSeqs :
       GemmSetup("before_forward", s \o <<ms>>,
                 before_forward_max_seq(gemm, s[1], s[2], s[3], s[4], ms))

GemmBeforeBackward ==
  /\ gemm_op # <<>>
  /\ \E s \in GemmShapes :
       GemmSetup("before_backward", s, before_backward(gemm, s[1], s[2], s[3], s[4]))

\* the device memory of a Variable's value and of its gradient
ValueOf(t, v) == IF v \in DOMAIN t THEN t[v] ELSE v
GradOf(v) == <<"grad", v>>

FlipOp(op) == IF op = "Transpose" THEN "NonTranspose" ELSE "Transpose"

\* the strides forward computes, strided_batch_gemm.cpp:26-31
ForwardStrides(g, op) ==
  [a |-> IF g.max_seq > 0
         THEN g.max_seq * (IF op.op_AA = "NonTranspose" THEN g.m ELSE g.k)
         ELSE g.m * g.k,
   b |-> g.n * g.k,
   c |-> g.m * g.n]

\* the cublas_strided_batched_gemm call of forward, strided_batch_gemm.cpp:33-39
ForwardKernels(g, op, parents, children, t) ==
  LET stride == ForwardStrides(g, op) IN
  <<[m |-> g.m, n |-> g.n, k |-> g.k,
     A |-> ValueOf(t, parents[1]), B |-> ValueOf(t, parents[2]),
     C |-> ValueOf(t, children[1]), op_A |-> op.op_AA, op_B |-> op.op_BB,
     stride_a |-> stride.a, stride_b |-> stride.b, stride_c |-> stride.c,
     batch_heads |-> g.batch_heads, algo |-> 0]>>

\* the two cublas_strided_batched_gemm calls of backward, strided_batch_gemm.cpp:44-87
BackwardKernels(g, op, parents, children, t) ==
  LET mb == IF op.op_AA = "Transpose" THEN g.k ELSE g.m
      kb == IF op.op_AA = "Transpose" THEN g.m ELSE g.k
      buffer_a == ValueOf(t, parents[1])
      buffer_b == ValueOf(t, parents[2])
      d_output == GradOf(children[1])
  IN <<[m |-> mb, n |-> kb, k |-> g.n,
        A |-> IF op.op_AA = "Transpose" THEN buffer_b ELSE d_output,
        B |-> IF op.op_AA = "Transpose" THEN d_output ELSE buffer_b,
        C |-> GradOf(parents[1]), op_A |-> "NonTranspose", op_B |-> FlipOp(op.op_BB),
        stride_a |-> mb * g.n, stride_b |-> g.n * kb, stride_c |-> g.m * g.k,
        batch_heads |-> g.batch_heads, algo |-> 1],
       [m |-> g.k, n |-> g.n, k |-> g.m,
        A |-> buffer_a, B |-> d_output,
        C |-> GradOf(parents[2]), op_A |-> FlipOp(op.op_AA), op_B |-> "NonTranspose",
        stride_a |-> g.m * g.k, stride_b |-> g.m * g.n, stride_c |-> g.n * g.k,
        batch_heads |-> g.batch_heads, algo |-> 2]>>

\* a guard that lets the kernels run in either phase
KernelGuardOpen(ph) == TRUE

\* if (!_context_ptr->is_built()) return;  strided_batch_gemm.cpp:22-24 and 59-61
KernelGuard(ph) == is_built(ph)

\* a forward or backward call
GemmRun(call, kernels) ==
  /\ gemm_call' = call
  /\ gemm_launch' = IF KernelGuard(phase) THEN kernels ELSE <<>>
  /\ UNCHANGED <<gpt_vars, gemm_op, gemm, gemm_parents, gemm_children, gemm_wire_args,
                 gemm_tensor,
                 gemm_setup>>

\* StridedBatchGemmOp::forward, strided_batch_gemm.cpp:17-40, of a wired operator:
\* parent(0), parent(1) and child(0) are read before the guard
GemmForward ==
  /\ gemm_op # <<>>
  /\ gemm_parents # <<>>
  /\ GemmRun("forward",
             ForwardKernels(gemm, gemm_op, gemm_parents, gemm_children, gemm_tensor))

\* StridedBatchGemmOp::backward, strided_batch_gemm.cpp:43-88, of a wired operator
GemmBackward ==
  /\ gemm_op # <<>>
  /\ gemm_parents # <<>>
  /\ GemmRun("backward",
             BackwardKernels(gemm, gemm_op, gemm_parents, gemm_children, gemm_tensor))

\* Variable::swap_tensor on the operator's two input Variables, as at gpt.cc:156
GemmSwapTensor ==
  /\ gemm_op # <<>>
  /\ gemm_tensor' = swap_tensor(gemm_tensor, "A", "B")
  /\ gemm_call' = ""
  /\ gemm_launch' = <<>>
  /\ UNCHANGED <<gpt_vars, gemm_op, gemm, gemm_parents, gemm_children, gemm_wire_args,
                 gemm_setup>>

\* one StridedBatchGemmOp, created after the Context, driven by any caller
NextGemm ==
  \/ CreateContext
  \/ GemmLeaveBuild
  \/ GemmConstruct
  \/ GemmWire
  \/ GemmBeforeForward
  \/ GemmBeforeForwardMaxSeq
  \/ GemmBeforeBackward
  \/ GemmForward
  \/ GemmBackward
  \/ GemmSwapTensor

SpecGemm == Init /\ [][NextGemm]_vars

(* ------------------------------ properties ---------------------------- *)

\* an Infer call is between its entry and its return
InInfer ==
  pc \in {"before_forward", "forward", "is_stop", "swap", "cap", "sync", "publish", "return"}

\* the layers hold the arguments of the before_forward of the current loop iteration
AfterBeforeForward ==
  pc \in {"forward", "is_stop", "swap", "cap", "sync", "publish", "return"}

\* C1: for every input shape (B, L) within the maxima and every sequence of stop
\* signals, Infer performs at most max_step - L decode transitions (loop iterations
\* run with steps >= 1).
C1_DecodeBound == InInfer => decodes <= tw.max_step - seq_len

\* C2: once is_stop() has returned true after a forward pass, Infer issues no further
\* before_forward, forward or swap_tensor call: what remains is synchronize() and the
\* publishing of the output shape.
C2_NoCallsAfterStop ==
  stopped => /\ pc \in {"sync", "publish", "return"}
             /\ <<bf_calls, passes, swaps>> = at_stop

\* C2 witness: an Infer call that stopped on the generator's signal after a decode step
\* and has synchronized and published
C2_Witness == stopped /\ pc = "return" /\ steps = 1 /\ syncs = 1 /\ passes = 2

\* C3: when the decoding strategy emits one token on each of n forward passes and then
\* signals stop (n = 2 in the scenario of the spec), Infer publishes the output shape
\* (batch, prompt_length + n).
C3_ShapeCountsEmitted ==
  (pc = "return" /\ stop_after # NoStop /\ seq_len + stop_after <= tw.max_step)
    => output_shapes = <<batch_size, seq_len + stop_after>>

\* C4: when the decoding strategy never signals stop, the loop halts exactly when the
\* step counter reaches max_step - prompt_length and the published shape is
\* (batch, max_step).
C4_HaltsAtMaxStep ==
  (pc = "return" /\ stop_after = NoStop)
    => /\ steps = tw.max_step - seq_len
       /\ output_shapes = <<batch_size, tw.max_step>>

\* C5: after Infer the caller's buffer bound with set_output_ptr(0, p) holds the final
\* token ids: for the first batch row, the prompt followed by the generated tokens.
C5_OutputBufferHoldsTokens ==
  (pc = "return" /\ gpt_out_ptr # Null)
    => /\ \A k \in 0..(seq_len - 1) : out_mem[gpt_out_ptr][k + 1] = InputAt(k)
       /\ \A k \in seq_len..(seq_len + steps - 1) : out_mem[gpt_out_ptr][k + 1] = GenTok

\* C6: every accessor fails with an invalid-index error for every slot index other than
\* 0 and leaves the bound input and output pointers unchanged; for slot 0 none fails.
C6_SlotIndex ==
  /\ [](last_call.op # "none" =>
          /\ last_call.threw <=> last_call.index # 0
          /\ last_call.threw =>
               last_call.what \in {"invalid input index", "invalid output index"})
  /\ [][last_call'.threw => (input_ptr' = input_ptr /\ gpt_out_ptr' = gpt_out_ptr)]_vars

\* C6 witness: set_output_ptr was called with slot 1 and failed, after the input was bound
C6_Witness ==
  /\ last_call.op = "set_output_ptr"
  /\ last_call.index = 1
  /\ last_call.threw
  /\ input_ptr # Null
  /\ gpt_out_ptr = Null

C8_BuiltAfterWiring ==
  /\ flips <= 1
  /\ phase = "Built" =>
       /\ Len(wired) = Len(LayerOrder(tw.n_enc_layer))
       /\ tensor["inp"] # 0
       /\ tensor["out"] # 0

\* C9: every parameter before_forward passes to a layer stays within the bounds of the
\* layer: row count at most max_batch_size * beam_size, sequence length at most
\* max_step, step offset or total length at most max_step.
C9_ParamsWithinBounds ==
  \A l \in Range(layers) :
    layer_cfg[l] # <<>> =>
      /\ layer_cfg[l][1] <= max_batch_size * tw.beam_size
      /\ layer_cfg[l][2] <= tw.max_step
      /\ Len(layer_cfg[l]) = 3 => layer_cfg[l][3] <= tw.max_step

\* C10 as stated: on every decode step every layer gets the same configuration, row
\* count batch_size * beam_size, sequence length 1 and step offset prompt_length + step.
C10_SameConfigEveryLayer ==
  (AfterBeforeForward /\ steps >= 1) =>
    \A l \in Range(layers) :
      /\ layer_cfg[l][1] = batch_size * tw.beam_size
      /\ layer_cfg[l][2] = 1
      /\ Len(layer_cfg[l]) = 3 => layer_cfg[l][3] = seq_len + steps

\* C10 as amended: on every decode step every layer gets sequence length 1; the
\* embedding, the GPT layers, the layer norm and the linear projection get row count
\* batch_size * beam_size and the generator gets batch_size; the GPT layers get the
\* offset prompt_length + step, the embedding and the generator get
\* prompt_length + step - 1, the layer norm and the linear projection get none.
C10_DecodeStepConfig ==
  (AfterBeforeForward /\ steps >= 1) =>
    \A l \in Range(layers) :
      /\ layer_cfg[l][2] = 1
      /\ layer_cfg[l][1] = IF l = GenLayer THEN batch_size ELSE batch_size * tw.beam_size
      /\ l[1] = "gpt" => layer_cfg[l] = <<batch_size * tw.beam_size, 1, seq_len + steps>>
      /\ l \in {EmbLayer, GenLayer} =>
           (Len(layer_cfg[l]) = 3 /\ layer_cfg[l][3] = seq_len + steps - 1)
      /\ l \in {LnLayer, LinearLayer} => Len(layer_cfg[l]) = 2

\* C10 witness: a decode step on a full batch has configured its layers
C10_Witness ==
  /\ pc = "forward"
  /\ steps = 1
  /\ batch_size = max_batch_size
  /\ layer_cfg[GptLayer(1)] = <<batch_size * tw.beam_size, 1, seq_len + 1>>
  /\ layer_cfg[EmbLayer] = <<batch_size * tw.beam_size, 1, seq_len>>
  /\ layer_cfg[GenLayer] = <<batch_size, 1, seq_len>>


\* C11: in every iteration of the Infer loop before_forward has run on every
\* layer before any layer's forward, and the forward calls follow one order in
\* every iteration: embedding, the GPT layers by index, layer norm, linear,
\* generator, which is the order in which the constructor wired them.
C11_ForwardFollowsWiring ==
  (InInfer /\ fwd_log # <<>>) =>
    /\ bf_done = Range(wired)
    /\ wired = <<EmbLayer>> \o [i \in 1..tw.n_enc_layer |-> GptLayer(i)]
                 \o <<LnLayer, LinearLayer, GenLayer>>
    /\ Len(fwd_log) <= Len(wired)
    /\ \A i \in 1..Len(fwd_log) : fwd_log[i] = wired[i]
    /\ (pc # "forward" => fwd_log = wired)

\* the second iteration of one Infer call has run all its forwards
C11_Witness ==
  pc = "is_stop" /\ steps = 1 /\ passes = 2 /\ fwd_log = wired /\ bf_done = Range(wired)


\* a step that is a forward or backward call of the operator
GemmRunStep ==
  /\ gemm_call' \in {"forward", "backward"}
  /\ <<gemm_call, gemm_launch>>' # <<gemm_call, gemm_launch>>

\* C12: while the Context is not built, StridedBatchGemmOp::forward and backward
\* launch no GEMM kernel, so touch no device buffer, and change nothing of the
\* operator (m, n, k, batch_heads, max_seq, parents, children); a kernel is
\* launched only by a call made while is_built() is true.
C12_NoKernelUntilBuilt ==
  [][/\ (GemmRunStep /\ ~is_built(phase)) =>
          /\ gemm_launch' = <<>>
          /\ UNCHANGED <<gemm, gemm_op, gemm_parents, gemm_children, gemm_tensor>>
     /\ (gemm_launch' # <<>> /\ gemm_launch' # gemm_launch) =>
          (is_built(phase) /\ GemmRunStep)]_vars

\* forward has been called on a wired operator while the Context was Building
C12_Witness ==
  /\ gemm_call = "forward"
  /\ phase = "Building"
  /\ gemm_parents # <<>>
  /\ gemm_launch = <<>>


\* C13: from the end of construction on, at every point of every Infer call and
\* between Infer calls, the input-token and the output-token Variable reference
\* two distinct buffers, the two the constructor allocated; each swap exchanges
\* the two references, and there is no third buffer.
C13_TwoBuffers ==
  (pc = "idle" \/ InInfer) =>
    /\ tensor["inp"] # tensor["out"]
    /\ {tensor["inp"], tensor["out"]} = {1, 2}
    /\ DOMAIN mem = {1, 2}
    /\ InInfer =>
         tensor = IF swaps % 2 = 0 THEN tensor_at_entry
                  ELSE [inp |-> tensor_at_entry["out"], out |-> tensor_at_entry["inp"]]

\* a second Infer call that began with the references exchanged has swapped them back
C13_Witness ==
  /\ infers = 2
  /\ pc = "cap"
  /\ swaps = 1
  /\ tensor_at_entry = [inp |-> 2, out |-> 1]
  /\ tensor = [inp |-> 1, out |-> 2]


\* C14: no buffer swap is performed on the loop iteration on which the loop
\* ends, by the stop signal or by the step cap, so that when synchronize() is
\* called the output-token Variable references the buffer the last generator
\* forward wrote.
C14_NoSwapOnLastIteration ==
  pc = "sync" => (swaps = passes - 1 /\ tensor["out"] = gen_buf)


\* C15: every Infer call issues synchronize() exactly once, after the last
\* forward pass of the loop and before the output shape is published, on either
\* exit path; the batch dimension of the published shape is the batch size Infer
\* read at entry.
C15_SynchronizeOnce ==
  /\ [](/\ pc \in {"before_forward", "forward", "is_stop", "swap", "cap", "sync"} => syncs = 0
        /\ pc \in {"publish", "return"} => syncs = 1
        /\ pc = "return" => (output_shapes[1] = batch_size /\ batch_size = input_shapes[1]))
  /\ [][/\ output_shapes' # output_shapes => (syncs = 1 /\ syncs' = 1)
        /\ (passes' # passes /\ pc' # "idle") => (syncs = 0 /\ syncs' = 0)
        /\ InInfer => input_shapes' = input_shapes]_vars

\* an Infer call on two prompts that left the loop by the stop signal has
\* synchronized and published
C15_Witness ==
  pc = "return" /\ stopped /\ syncs = 1 /\ batch_size = 2 /\ output_shapes[1] = 2


\* a step that is a before_forward, before_backward, forward, backward or
\* swap_tensor call
GemmUseStep ==
  \/ gemm_setup' # gemm_setup
  \/ GemmRunStep
  \/ gemm_tensor' # gemm_tensor

\* C16: an operator's parent and child Variables are fixed by its wiring call:
\* the wiring of a StridedBatchGemmOp records exactly (inpA, inpB) as parents, in
\* that order, and exactly one new Variable as child, and no before_forward,
\* before_backward, forward, backward or swap_tensor call changes the parent or
\* child list.
C16_WiringFixesParents ==
  /\ [](gemm_parents # <<>> =>
          /\ gemm_parents = <<gemm_wire_args[1], gemm_wire_args[2]>>
          /\ Len(gemm_children) = 1
          /\ gemm_children[1] \notin GemmInputs)
  /\ [][/\ GemmUseStep => UNCHANGED <<gemm_parents, gemm_children>>
        /\ gemm_children' # gemm_children =>
             (gemm_children = <<>> \/ gemm_children'[1] # gemm_children[1])]_vars

\* an operator wired to (B, A) has run forward after a swap of its inputs' buffers
C16_Witness ==
  /\ gemm_parents = <<"B", "A">>
  /\ gemm_tensor["A"] = "B"
  /\ gemm_call = "forward"
  /\ gemm_launch # <<>>


\* C17: after Infer has loaded the prompt of an input of shape (B, L), for every
\* batch row i < B and every beam j < beam_size the first L entries of the slot
\* (i * beam_size + j) of the input-token buffer, slot stride max_step, are the
\* i-th prompt row of the caller's input.
C17_EachRowGetsItsPrompt ==
  (pc = "before_forward" /\ passes = 0) =>
    \A i \in 0..(batch_size - 1), j \in 0..(tw.beam_size - 1), k \in 0..(seq_len - 1) :
      mem[tensor["inp"]][(i * tw.beam_size + j) * tw.max_step + k + 1]
        = InputAt(i * seq_len + k)


\* the kernel of a forward call that ran right after a before_forward call
AfterBeforeForwardKernel ==
  /\ gemm_call = "forward"
  /\ gemm_launch # <<>>
  /\ gemm_setup # <<>>
  /\ gemm_setup.call = "before_forward"

\* C18: the A stride forward uses depends only on the most recent before_forward
\* call: after before_forward(m, n, k, batch_heads) it is m * k, whatever
\* _max_seq was before; after before_forward(m, n, k, batch_heads, max_seq) with
\* max_seq > 0 it is max_seq * m when A is not transposed and max_seq * k when it
\* is; the B and C strides are always n * k and m * n.
C18_StrideFollowsLastSetup ==
  /\ AfterBeforeForwardKernel =>
       LET a == gemm_setup.args
           launch == gemm_launch[1]
       IN /\ Len(a) = 4 => launch.stride_a = a[1] * a[3]
          /\ (Len(a) = 5 /\ a[5] > 0) =>
               launch.stride_a =
                 a[5] * (IF gemm_op.op_AA = "NonTranspose" THEN a[1] ELSE a[3])
          /\ launch.stride_b = a[2] * a[3]
          /\ launch.stride_c = a[1] * a[2]
  /\ (gemm_call = "forward" /\ gemm_launch # <<>>) =>
       /\ gemm_launch[1].stride_b = gemm.n * gemm.k
       /\ gemm_launch[1].stride_c = gemm.m * gemm.n

\* forward ran after a before_forward without max_seq that found a positive
\* _max_seq, and used the stride m * k
C18_Witness ==
  /\ AfterBeforeForwardKernel
  /\ Len(gemm_setup.args) = 4
  /\ gemm_setup.was_max_seq > 0
  /\ gemm_launch[1].stride_a = gemm_setup.args[1] * gemm_setup.args[3]

====
